---------------------------- MODULE Spec2Model ----------------------------
(***************************************************************************)
(* A model of slack-cli: the text chunker (split_text), the color resolver *)
(* (resolve_color), the token resolver (resolve_token_with_config), the    *)
(* send orchestrator (send_message), the blocks reader (parse_blocks_json) *)
(* and the command line (run and main).                                    *)
(*                                                                         *)
(* Strings are Rust Strings: sequences of UTF-8 bytes.  len() is the       *)
(* number of bytes, chars() walks the lead bytes, and a slice s[a..b] is   *)
(* the bytes a+1..b of the sequence.  Option<T> is a sequence of length 0  *)
(* (None) or 1 (Some).  Result<T, E> is a record with the field ok.        *)
(***************************************************************************)
EXTENDS Integers, Sequences, FiniteSets

VARIABLES
    \* split_text: its arguments, its locals and where it stands
    text, max_len, remaining, chunks, split_pc,
    \* resolve_color: its argument and what it returned
    color_input, color_result,
    \* resolve_token_with_config: env::var(&config.env_var).ok(), the result
    \* of fs::read_to_string(path).ok() for each path of config.file_paths,
    \* the position in the path list, what it returned, where it stands
    env_value, file_contents, path_idx, token_result, token_pc,
    \* send_message: its SendConfig, its locals, the number of calls of
    \* client.post_message, what it returned, where it stands
    config, resolved_color, use_attachment, warning, blocks, payload_bytes,
    posts, response, send_result, send_pc,
    \* parse_blocks_json: its argument, what it returned, where it stands
    json_str, parse_result, parse_pc,
    \* run and main: the parsed Args, io::stdin().is_terminal(), what
    \* read_to_string gives for stdin and for the --blocks file, the number
    \* of reads of stdin, the locals message and blocks, what run returned,
    \* the lines written to stderr, the exit code, where run stands
    args, stdin_is_terminal, stdin_data, blocks_file, stdin_reads,
    run_message, run_blocks, run_result, stderr, exit_code, run_pc

splitVars == <<text, max_len, remaining, chunks, split_pc>>
colorVars == <<color_input, color_result>>
tokenVars == <<env_value, file_contents, path_idx, token_result, token_pc>>
sendVars ==
    <<config, resolved_color, use_attachment, warning, blocks, payload_bytes,
      posts, response, send_result, send_pc>>
parseVars == <<json_str, parse_result, parse_pc>>
runVars ==
    <<args, stdin_is_terminal, stdin_data, blocks_file, stdin_reads,
      run_message, run_blocks, run_result, stderr, exit_code, run_pc>>
cliVars == <<parseVars, runVars>>
vars == <<splitVars, colorVars, tokenVars, sendVars, cliVars>>

(***************************************************************************)
(* Bounds of the model.                                                    *)
(***************************************************************************)
MaxTextLen == 5
MaxMaxLen == 3
MaxColorLen == 7
MaxTokenLen == 2
MaxPaths == 2
Slack == 1

(***************************************************************************)
(* Constants of the program.                                               *)
(***************************************************************************)
ATTACHMENT_TEXT_MAX == 4000
SECTION_TEXT_MAX == 3000

(***************************************************************************)
(* Option and Result.                                                      *)
(***************************************************************************)
None == <<>>
Some(x) == <<x>>
IsSome(o) == Len(o) = 1
Unwrap(o) == o[1]

Ok(v) == [ok |-> TRUE, val |-> v]
Err(e) == [ok |-> FALSE, err |-> e]

\* The variants of SlackCliError that the modelled code constructs.
InvalidColor(c) == [kind |-> "InvalidColor", arg |-> c]
TokenNotFound == [kind |-> "TokenNotFound"]
HttpError == [kind |-> "HttpError"]
SlackApiError(msg) == [kind |-> "SlackApiError", arg |-> msg]

(***************************************************************************)
(* UTF-8.                                                                  *)
(***************************************************************************)
NEWLINE == 10

\* The UTF-8 encoding of a scalar value below U+0800.
Utf8(cp) ==
    IF cp < 128 THEN <<cp>> ELSE <<192 + (cp \div 64), 128 + (cp % 64)>>

RECURSIVE Encode(_)
Encode(cps) ==
    IF cps = <<>> THEN <<>> ELSE Utf8(Head(cps)) \o Encode(Tail(cps))

\* A byte that starts a character (not a continuation byte 10xxxxxx).
IsCharStart(b) == b < 128 \/ b >= 192

\* s[from..to] with 0-based byte offsets, end exclusive.
Slice(s, from, to) == SubSeq(s, from + 1, to)

\* The 1-based position of the k-th (0-based) character start among the
\* bytes lo..hi of s, or 0 when there are fewer than k+1 of them.
RECURSIVE NthCharStart(_, _, _, _)
NthCharStart(s, lo, hi, k) ==
    IF lo > hi THEN 0
    ELSE IF lo = hi THEN (IF IsCharStart(s[lo]) /\ k = 0 THEN lo ELSE 0)
    ELSE LET mid == (lo + hi) \div 2
             c == Cardinality({j \in lo..mid : IsCharStart(s[j])})
         IN  IF k < c THEN NthCharStart(s, lo, mid, k)
             ELSE NthCharStart(s, mid + 1, hi, k - c)

\* s.char_indices().nth(n).map(|(i, _)| i): the byte offset of character n.
CharIndicesNth(s, n) ==
    LET p == NthCharStart(s, 1, Len(s), n)
    IN  IF p = 0 THEN None ELSE Some(p - 1)

\* s.find('\n'): the byte offset of the first newline of s.
FindNewline(s) ==
    LET at == {i \in 1..Len(s) : s[i] = NEWLINE}
    IN  IF at = {} THEN None
        ELSE Some((CHOOSE i \in at : \A j \in at : i <= j) - 1)

\* s.rfind('\n'): the byte offset of the last newline of s.
RFindNewline(s) ==
    LET at == {i \in 1..Len(s) : s[i] = NEWLINE}
    IN  IF at = {} THEN None
        ELSE Some((CHOOSE i \in at : \A j \in at : j <= i) - 1)

(***************************************************************************)
(* split_text                                                              *)
(***************************************************************************)
\* Lines 41-43: text.chars().count()
char_len(s) == Cardinality({i \in 1..Len(s) : IsCharStart(s[i])})

\* Lines 60-64, taking one character too many.
byte_limit_OneMore(rem, max) ==
    LET nth == CharIndicesNth(rem, max + 1)
    IN  IF IsSome(nth) THEN Unwrap(nth) ELSE Len(rem)

\* Lines 60-64.
byte_limit(rem, max) ==
    LET nth == CharIndicesNth(rem, max)
    IN  IF IsSome(nth) THEN Unwrap(nth) ELSE Len(rem)

\* Lines 67-70, without the `+ 1` that keeps the newline in the chunk.
split_at_BeforeNewline(rem, max) ==
    LET limit == byte_limit(rem, max)
        pos == RFindNewline(Slice(rem, 0, limit))
    IN  IF IsSome(pos) THEN Unwrap(pos) ELSE limit

\* Lines 67-70.
split_at(rem, max) ==
    LET limit == byte_limit(rem, max)
        pos == RFindNewline(Slice(rem, 0, limit))
    IN  IF IsSome(pos) THEN Unwrap(pos) + 1 ELSE limit

\* Line 72: &remaining[..split_at]
ChunkOf(rem, at) == Slice(rem, 0, at)

\* Line 73, starting one byte after the split.
RestOfSkippingOne(rem, at) == Slice(rem, at + 1, Len(rem))

\* Line 73: &remaining[split_at..]
RestOf(rem, at) == Slice(rem, at, Len(rem))

\* Lines 46 and 54: char_len(..) <= max_len
Fits(s, max) == char_len(s) <= max

\* The while loop of split_text, from the remaining text and the chunks so far.
RECURSIVE SplitLoop(_, _, _)
SplitLoop(rem, max, acc) ==
    IF rem = <<>> THEN acc
    ELSE IF Fits(rem, max) THEN Append(acc, rem)
    ELSE LET at == split_at(rem, max)
         IN  SplitLoop(RestOf(rem, at), max, Append(acc, ChunkOf(rem, at)))

split_text(t, max) ==
    IF Fits(t, max) THEN <<t>> ELSE SplitLoop(t, max, <<>>)

(***************************************************************************)
(* split_text, one loop iteration at a time.                               *)
(***************************************************************************)
SplitChars == {97, NEWLINE, 233}

SplitTexts ==
    {Encode(cps) : cps \in UNION {[1..n -> SplitChars] : n \in 0..MaxTextLen}}

SplitIdle ==
    /\ text = <<>>
    /\ max_len = 0
    /\ remaining = <<>>
    /\ chunks = <<>>
    /\ split_pc = "idle"

ColorIdle ==
    /\ color_input = <<>>
    /\ color_result = None

TokenIdle ==
    /\ env_value = None
    /\ file_contents = <<>>
    /\ path_idx = 0
    /\ token_result = None
    /\ token_pc = "idle"

NoConfig ==
    [channel |-> <<>>, message |-> <<>>, color |-> None, title |-> None,
     token |-> <<>>]

SendIdle ==
    /\ config = NoConfig
    /\ resolved_color = None
    /\ use_attachment = FALSE
    /\ warning = None
    /\ blocks = <<>>
    /\ payload_bytes = None
    /\ posts = 0
    /\ response = None
    /\ send_result = None
    /\ send_pc = "idle"

ParseIdle ==
    /\ json_str = <<>>
    /\ parse_result = None
    /\ parse_pc = "idle"

NoArgs ==
    [message |-> None, blocks |-> None, channel |-> <<>>, color |-> None,
     title |-> None]

RunIdle ==
    /\ args = NoArgs
    /\ stdin_is_terminal = TRUE
    /\ stdin_data = None
    /\ blocks_file = None
    /\ stdin_reads = 0
    /\ run_message = <<>>
    /\ run_blocks = None
    /\ run_result = None
    /\ stderr = <<>>
    /\ exit_code = None
    /\ run_pc = "idle"

CliIdle == ParseIdle /\ RunIdle

SplitInit ==
    /\ ColorIdle
    /\ TokenIdle
    /\ SendIdle
    /\ CliIdle
    /\ text \in SplitTexts
    /\ max_len \in 1..MaxMaxLen
    /\ remaining = <<>>
    /\ chunks = <<>>
    /\ split_pc = "entry"

SplitEarlyReturn ==
    /\ split_pc = "entry"
    /\ Fits(text, max_len)
    /\ chunks' = <<text>>
    /\ split_pc' = "done"
    /\ UNCHANGED cliVars
    /\ UNCHANGED <<text, max_len, remaining, colorVars, tokenVars, sendVars>>

SplitEnterLoop ==
    /\ split_pc = "entry"
    /\ ~Fits(text, max_len)
    /\ remaining' = text
    /\ chunks' = <<>>
    /\ split_pc' = "loop"
    /\ UNCHANGED cliVars
    /\ UNCHANGED <<text, max_len, colorVars, tokenVars, sendVars>>

\* One evaluation of the loop that ends it: the while condition fails on an
\* empty remainder, or the remainder fits and is pushed before the break.
SplitLastChunk ==
    /\ split_pc = "loop"
    /\ (remaining = <<>> \/ Fits(remaining, max_len))
    /\ chunks' = IF remaining = <<>> THEN chunks ELSE Append(chunks, remaining)
    /\ split_pc' = "done"
    /\ UNCHANGED cliVars
    /\ UNCHANGED <<text, max_len, remaining, colorVars, tokenVars, sendVars>>

SplitCut ==
    /\ split_pc = "loop"
    /\ remaining # <<>>
    /\ ~Fits(remaining, max_len)
    /\ LET at == split_at(remaining, max_len)
       IN  /\ chunks' = Append(chunks, ChunkOf(remaining, at))
           /\ remaining' = RestOf(remaining, at)
    /\ UNCHANGED cliVars
    /\ UNCHANGED <<text, max_len, split_pc, colorVars, tokenVars, sendVars>>

SplitNext ==
    \/ SplitEarlyReturn
    \/ SplitEnterLoop
    \/ SplitLastChunk
    \/ SplitCut

SpecSplit == SplitInit /\ [][SplitNext]_vars

\* split_text is straight-line code and a loop in one thread: a step that
\* can be taken is taken.
SpecSplitFair == SpecSplit /\ WF_vars(SplitNext)

(***************************************************************************)
(* Claims about split_text.                                                *)
(***************************************************************************)
RECURSIVE Concat(_)
Concat(parts) ==
    IF parts = <<>> THEN <<>> ELSE Head(parts) \o Concat(Tail(parts))

SplitReturned == split_pc = "done"

\* C1: the chunks split_text returns, joined in order, are the input text.
C1_ConcatIsText == SplitReturned => Concat(chunks) = text

C1_Witness ==
    /\ SplitReturned
    /\ Len(chunks) >= 3
    /\ \E i \in 1..Len(text) : text[i] = NEWLINE
    /\ \E i \in 1..Len(text) : text[i] >= 128

\* While split_text runs and when it returns, every chunk holds at most
\* max_len characters (scalar values, not bytes).
C2_ChunkWithinMax ==
    \A i \in 1..Len(chunks) : char_len(chunks[i]) <= max_len

C2_Witness ==
    /\ SplitReturned
    /\ Len(chunks) >= 2
    /\ \E i \in 1..Len(chunks) :
          char_len(chunks[i]) = max_len /\ Len(chunks[i]) > max_len

\* C3: every chunk split_text returns is a non-empty string, for every
\* text, the empty text included.
C3_ChunksNonEmpty ==
    SplitReturned => \A i \in 1..Len(chunks) : chunks[i] # <<>>

\* C3 restricted to non-empty texts.
C3_NonEmptyTextChunksNonEmpty ==
    (SplitReturned /\ text # <<>>) =>
        \A i \in 1..Len(chunks) : chunks[i] # <<>>

\* The number of characters among the first k bytes of s.
CharsIn(s, k) == Cardinality({i \in 1..k : s[i] \notin 128..191})

\* The first n characters of s, which has at least n characters.
FirstChars(s, n) ==
    LET k == CHOOSE k \in 0..Len(s) :
                /\ CharsIn(s, k) = n
                /\ (k = Len(s) \/ s[k + 1] \notin 128..191)
    IN  SubSeq(s, 1, k)

\* The chunk the greedy rule takes from s: up to the last newline among the
\* first n characters, the newline included, or the first n characters.
GreedyChunk(s, n) ==
    LET w == FirstChars(s, n)
        nl == {i \in 1..Len(w) : w[i] = 10}
    IN  IF nl = {} THEN w
        ELSE SubSeq(w, 1, CHOOSE i \in nl : \A j \in nl : j <= i)

\* What is left of the text after the first i chunks.
RECURSIVE TextAfter(_)
TextAfter(i) ==
    IF i = 0 THEN text
    ELSE LET t == TextAfter(i - 1)
         IN  SubSeq(t, Len(chunks[i]) + 1, Len(t))

\* The chunks that are not the last one of the result.
NonFinalChunks ==
    IF split_pc = "loop" THEN 1..Len(chunks) ELSE 1..(Len(chunks) - 1)

\* C16: every chunk but the last is the greedy chunk of the remaining text;
\* so it ends with a newline or has exactly max_len characters; and no
\* chunk starts or ends inside a multi-byte character.
C16_GreedyChunks ==
    /\ \A i \in NonFinalChunks :
          /\ chunks[i] = GreedyChunk(TextAfter(i - 1), max_len)
          /\ \/ chunks[i][Len(chunks[i])] = 10
             \/ CharsIn(chunks[i], Len(chunks[i])) = max_len
    /\ \A i \in 1..Len(chunks) :
          chunks[i] # <<>> =>
              /\ chunks[i][1] \notin 128..191
              /\ chunks[i][Len(chunks[i])] < 192

\* A chunk cut after the second of two newlines, then a hard cut of
\* two-byte characters, then the last chunk.
C16_Witness ==
    /\ SplitReturned
    /\ Len(chunks) >= 3
    /\ chunks[1] = <<10, 10>>
    /\ Len(chunks[2]) = 2 * max_len
    /\ \A i \in 1..Len(chunks[2]) : chunks[2][i] >= 128

\* A call of split_text with more than max_len characters has entered the
\* loop and not left it.
InSplitLoop == split_pc = "loop"

\* C17: every iteration that stays in the loop shortens the remaining text
\* by at least one character, and split_text returns.
C17_LoopTerminates ==
    /\ [][(InSplitLoop /\ InSplitLoop') =>
            /\ CharsIn(remaining', Len(remaining'))
                  < CharsIn(remaining, Len(remaining))
            /\ Len(chunks') = Len(chunks) + 1]_vars
    /\ <>SplitReturned

\* The window of a cut held one newline, as its first character: the chunk
\* is that newline alone, and the call returned all the same.
C17_Witness ==
    /\ SplitReturned
    /\ max_len >= 2
    /\ \E i \in NonFinalChunks :
          /\ chunks[i] = <<10>>
          /\ GreedyChunk(TextAfter(i - 1), max_len) = <<10>>

(***************************************************************************)
(* resolve_color                                                           *)
(***************************************************************************)
HASH == 35

\* "good", "success", "warning", "danger", "error"
GOOD == <<103, 111, 111, 100>>
SUCCESS == <<115, 117, 99, 99, 101, 115, 115>>
WARNING == <<119, 97, 114, 110, 105, 110, 103>>
DANGER == <<100, 97, 110, 103, 101, 114>>
ERROR == <<101, 114, 114, 111, 114>>

\* "#36a64f", "#daa038", "#a30200"
HEX_GOOD == <<35, 51, 54, 97, 54, 52, 102>>
HEX_WARNING == <<35, 100, 97, 97, 48, 51, 56>>
HEX_DANGER == <<35, 97, 51, 48, 50, 48, 48>>

\* str::to_lowercase on the characters of the model's alphabet: the ASCII
\* letters A-Z, and the two-byte Latin-1 capitals U+00C0..U+00DE (lead byte
\* 0xC3, second byte 0x80..0x9E without U+00D7), whose lowercase is the
\* second byte plus 0x20.
ToLowercaseIdentity(s) == s

ToLowercase(s) ==
    [i \in 1..Len(s) |->
        IF s[i] \in 65..90 THEN s[i] + 32
        ELSE IF i > 1 /\ s[i - 1] = 195 /\ s[i] \in (128..158) \ {151}
             THEN s[i] + 32
        ELSE s[i]]

\* char::is_ascii_hexdigit, on a byte: no byte of a multi-byte character
\* is below 128, so chars().all(..) is the same test on every byte.
IsAsciiHexdigit(b) == b \in (48..57) \cup (65..70) \cup (97..102)

\* The match of resolve_color on the lowercased input; `input` is what the
\* error carries.
MatchColor(input, hex) ==
    IF hex = GOOD \/ hex = SUCCESS THEN Ok(HEX_GOOD)
    ELSE IF hex = WARNING THEN Ok(HEX_WARNING)
    ELSE IF hex = DANGER \/ hex = ERROR THEN Ok(HEX_DANGER)
    ELSE IF /\ Len(hex) = 7
            /\ hex[1] = HASH
            /\ \A i \in 2..Len(hex) : IsAsciiHexdigit(hex[i])
         THEN Ok(hex)
    ELSE Err(InvalidColor(input))

resolve_color_LoweredPayload(input) ==
    MatchColor(ToLowercase(input), ToLowercase(input))

resolve_color(input) == MatchColor(input, ToLowercase(input))

(***************************************************************************)
(* resolve_color applied to a family of inputs.                            *)
(***************************************************************************)
Keywords == {GOOD, SUCCESS, WARNING, DANGER, ERROR}

\* Every spelling of s with any of its letters in upper case.
CaseVariants(s) ==
    {[i \in 1..Len(s) |-> IF i \in up THEN s[i] - 32 ELSE s[i]] :
        up \in SUBSET (1..Len(s))}

KeywordSpellings == UNION {CaseVariants(k) : k \in Keywords}

\* A keyword spelling with a space before or after it, or cut short.
KeywordNearMisses ==
    UNION {{<<32>> \o k, k \o <<32>>, SubSeq(k, 1, Len(k) - 1)} :
              k \in KeywordSpellings}

\* '#', '0', 'F', 'g'
ColorChars == {HASH, 48, 70, 103}

ColorStrings == UNION {[1..n -> ColorChars] : n \in 0..MaxColorLen}

\* Inputs with the two-byte characters U+00C9 and U+00E9 in them: "#É0000"
\* and "#0000é" are 7 bytes and 6 characters long.
NonAsciiColors ==
    {Encode(<<HASH, 201, 48, 48, 48, 48>>), Encode(<<HASH, 48, 48, 48, 48, 233>>),
     Encode(<<HASH, 48, 48, 48, 48, 48, 201>>), Encode(<<201, 48, 48, 48, 48, 48>>),
     Encode(<<101, 114, 114, 201, 114>>), Encode(<<201>>)}

ColorInputs ==
    KeywordSpellings \cup KeywordNearMisses \cup ColorStrings \cup NonAsciiColors

ColorInit ==
    /\ SplitIdle
    /\ TokenIdle
    /\ SendIdle
    /\ CliIdle
    /\ color_input \in ColorInputs
    /\ color_result = None

ResolveColor ==
    /\ color_result = None
    /\ color_input \in ColorInputs
    /\ color_result' = Some(resolve_color(color_input))
    /\ UNCHANGED cliVars
    /\ UNCHANGED <<color_input, splitVars, tokenVars, sendVars>>

ColorNext == ResolveColor

SpecColor == ColorInit /\ [][ColorNext]_vars

(***************************************************************************)
(* Claims about resolve_color.                                             *)
(***************************************************************************)
ColorReturned == IsSome(color_result)

AsciiLower(s) ==
    [i \in 1..Len(s) |-> IF s[i] \in 65..90 THEN s[i] + 32 ELSE s[i]]

\* s is the keyword k in some mix of upper and lower case.
SpellsKeyword(s, k) == AsciiLower(s) = k

\* s is '#' followed by six hexadecimal digits, in either case.
IsHashHex(s) ==
    /\ Len(s) = 7
    /\ s[1] = HASH
    /\ \A i \in 2..7 : s[i] \in (48..57) \cup (65..70) \cup (97..102)

\* C4: whatever the case of its letters, good and success resolve to
\* #36a64f, warning to #daa038, danger and error to #a30200, and '#' with
\* six hex digits to the same string in lower case.
C4_ColorMapping ==
    ColorReturned =>
        LET r == Unwrap(color_result)
            c == color_input
        IN  /\ (SpellsKeyword(c, GOOD) \/ SpellsKeyword(c, SUCCESS))
                  => r = Ok(HEX_GOOD)
            /\ SpellsKeyword(c, WARNING) => r = Ok(HEX_WARNING)
            /\ (SpellsKeyword(c, DANGER) \/ SpellsKeyword(c, ERROR))
                  => r = Ok(HEX_DANGER)
            /\ IsHashHex(c) => r = Ok(AsciiLower(c))

C4_Witness ==
    /\ ColorReturned
    /\ IsHashHex(color_input)
    /\ \E i \in 2..7 : color_input[i] \in 65..70
    /\ Unwrap(color_result).ok

\* C5: an input that spells no keyword and is not '#' with six hex digits
\* fails with InvalidColor carrying the input exactly as it was given.
C5_InvalidColorKeepsInput ==
    (/\ ColorReturned
     /\ \A k \in Keywords : ~SpellsKeyword(color_input, k)
     /\ ~IsHashHex(color_input))
        => Unwrap(color_result) = Err(InvalidColor(color_input))

C5_Witness ==
    /\ ColorReturned
    /\ \A k \in Keywords : ~SpellsKeyword(color_input, k)
    /\ ~IsHashHex(color_input)
    /\ AsciiLower(color_input) # color_input
    /\ color_input[1] = 32
    /\ ~Unwrap(color_result).ok

(***************************************************************************)
(* resolve_token_with_config                                               *)
(***************************************************************************)
\* char::is_whitespace on the ASCII characters: tab, LF, VT, FF, CR, space.
IsWhitespace(b) == b \in (9..13) \cup {32}

TrimStartOnly(s) ==
    LET keep == {i \in 1..Len(s) : ~IsWhitespace(s[i])}
    IN  IF keep = {} THEN <<>>
        ELSE SubSeq(s, CHOOSE i \in keep : \A j \in keep : i <= j, Len(s))

\* str::trim: s without its leading and trailing whitespace.
Trim(s) ==
    LET keep == {i \in 1..Len(s) : ~IsWhitespace(s[i])}
    IN  IF keep = {} THEN <<>>
        ELSE SubSeq(s, CHOOSE i \in keep : \A j \in keep : i <= j,
                       CHOOSE i \in keep : \A j \in keep : j <= i)

\* Some(token) when a source that was read yields a token, None otherwise:
\* `if let Ok(x) = .. { let token = x.trim().to_string();
\*                      if !token.is_empty() { return Ok(token) } }`
TokenOfUntrimmed(source) ==
    IF IsSome(source) /\ Unwrap(source) # <<>>
    THEN Some(Unwrap(source)) ELSE None

TokenOf(source) ==
    IF IsSome(source) /\ Trim(Unwrap(source)) # <<>>
    THEN Some(Trim(Unwrap(source))) ELSE None

\* ' ', 'x'
TokenChars == {32, 120}

\* Every string of spaces and 'x' up to the bound, and a few with the other
\* whitespace: " x\n", "x\n", "\tx", "\n", "\r\n".
TokenStrings ==
    UNION {[1..n -> TokenChars] : n \in 0..MaxTokenLen}
        \cup {<<32, 120, 10>>, <<120, 10>>, <<9, 120>>, <<10>>, <<13, 10>>}

\* What reading a source gives: None (the variable is unset or not Unicode,
\* the file is missing or unreadable) or its contents.
Sources == {None} \cup {Some(t) : t \in TokenStrings}

TokenInit ==
    /\ SplitIdle
    /\ ColorIdle
    /\ SendIdle
    /\ CliIdle
    /\ env_value \in Sources
    /\ file_contents \in UNION {[1..n -> Sources] : n \in 0..MaxPaths}
    /\ path_idx = 0
    /\ token_result = None
    /\ token_pc = "env"

\* Lines 29-34: the environment variable yields the token.
TokenFromEnv ==
    /\ token_pc = "env"
    /\ IsSome(TokenOf(env_value))
    /\ token_result' = Some(Ok(Unwrap(TokenOf(env_value))))
    /\ token_pc' = "done"
    /\ UNCHANGED cliVars
    /\ UNCHANGED <<env_value, file_contents, path_idx, splitVars, colorVars,
                   sendVars>>

\* Lines 29-34 fall through to the loop over the paths.
TokenEnvSkipped ==
    /\ token_pc = "env"
    /\ ~IsSome(TokenOf(env_value))
    /\ path_idx' = 1
    /\ token_pc' = "files"
    /\ UNCHANGED cliVars
    /\ UNCHANGED <<env_value, file_contents, token_result, splitVars,
                   colorVars, sendVars>>

\* Lines 36-43: the path at path_idx yields the token.
TokenFromFile ==
    /\ token_pc = "files"
    /\ path_idx <= Len(file_contents)
    /\ IsSome(TokenOf(file_contents[path_idx]))
    /\ token_result' = Some(Ok(Unwrap(TokenOf(file_contents[path_idx]))))
    /\ token_pc' = "done"
    /\ UNCHANGED cliVars
    /\ UNCHANGED <<env_value, file_contents, path_idx, splitVars, colorVars,
                   sendVars>>

\* Lines 36-43: the path at path_idx is skipped.
TokenFileSkipped ==
    /\ token_pc = "files"
    /\ path_idx <= Len(file_contents)
    /\ ~IsSome(TokenOf(file_contents[path_idx]))
    /\ path_idx' = path_idx + 1
    /\ UNCHANGED cliVars
    /\ UNCHANGED <<env_value, file_contents, token_result, token_pc,
                   splitVars, colorVars, sendVars>>

\* Line 45: the paths are exhausted.
TokenExhausted ==
    /\ token_pc = "files"
    /\ path_idx > Len(file_contents)
    /\ token_result' = Some(Err(TokenNotFound))
    /\ token_pc' = "done"
    /\ UNCHANGED cliVars
    /\ UNCHANGED <<env_value, file_contents, path_idx, splitVars, colorVars,
                   sendVars>>

TokenNext ==
    \/ TokenFromEnv
    \/ TokenEnvSkipped
    \/ TokenFromFile
    \/ TokenFileSkipped
    \/ TokenExhausted

SpecToken == TokenInit /\ [][TokenNext]_vars

(***************************************************************************)
(* Claims about resolve_token_with_config.                                 *)
(***************************************************************************)
TokenReturned == token_pc = "done"

\* s has a character that is not whitespace.
HasNonBlank(s) == \E i \in 1..Len(s) : s[i] \notin (9..13) \cup {32}

\* t is s without the whitespace at its two ends.
IsTrimOf(t, s) ==
    /\ t # <<>>
    /\ t[1] \notin (9..13) \cup {32}
    /\ t[Len(t)] \notin (9..13) \cup {32}
    /\ \E a \in 0..Len(s) :
          /\ a + Len(t) <= Len(s)
          /\ SubSeq(s, a + 1, a + Len(t)) = t
          /\ \A i \in (1..a) \cup ((a + Len(t) + 1)..Len(s)) :
                s[i] \in (9..13) \cup {32}

\* The source yields a token: it could be read and is not blank.
Yields(source) == IsSome(source) /\ HasNonBlank(Unwrap(source))

\* C9: a variable that is set and not blank gives the result, trimmed,
\* whatever the files hold; a variable that is unset or blank never gives
\* the result, and the files are consulted.
C9_EnvWins ==
    /\ (TokenReturned /\ Yields(env_value)) =>
          /\ Unwrap(token_result).ok
          /\ IsTrimOf(Unwrap(token_result).val, Unwrap(env_value))
          /\ path_idx = 0
    /\ (token_pc # "env" /\ ~Yields(env_value)) =>
          /\ path_idx >= 1
          /\ (TokenReturned /\ Unwrap(token_result).ok) =>
                /\ path_idx <= Len(file_contents)
                /\ IsTrimOf(Unwrap(token_result).val,
                            Unwrap(file_contents[path_idx]))

\* The variable holds a token with whitespace before or after it, and a
\* file holds another token.
C9_Witness ==
    /\ TokenReturned
    /\ Yields(env_value)
    /\ Unwrap(env_value) # Unwrap(token_result).val
    /\ \E i \in 1..Len(file_contents) :
          /\ Yields(file_contents[i])
          /\ ~IsTrimOf(Unwrap(token_result).val, Unwrap(file_contents[i]))

\* The first path, in list order, that yields a token; 0 when none does.
FirstYielding ==
    IF \E i \in 1..Len(file_contents) : Yields(file_contents[i])
    THEN CHOOSE i \in 1..Len(file_contents) :
            /\ Yields(file_contents[i])
            /\ \A j \in 1..(i - 1) : ~Yields(file_contents[j])
    ELSE 0

\* C10: without a token from the variable, the result is the trimmed
\* contents of the first path that is readable and not blank; the call
\* fails, with TokenNotFound, exactly when no source yields a token; a
\* returned token is not empty and has no whitespace at its ends.
C10_FirstFileOrNotFound ==
    TokenReturned =>
        LET r == Unwrap(token_result)
        IN  /\ (~Yields(env_value) /\ FirstYielding # 0) =>
                  /\ r.ok
                  /\ IsTrimOf(r.val, Unwrap(file_contents[FirstYielding]))
            /\ ~r.ok <=>
                  (~Yields(env_value) /\ FirstYielding = 0)
            /\ ~r.ok => r = Err(TokenNotFound)
            /\ r.ok =>
                  /\ r.val # <<>>
                  /\ ~IsWhitespace(r.val[1])
                  /\ ~IsWhitespace(r.val[Len(r.val)])

\* An unreadable path and a blank one are passed over before the path
\* that gives the token, which has whitespace around it.
C10_Witness ==
    /\ TokenReturned
    /\ ~Yields(env_value)
    /\ FirstYielding = 2
    /\ Unwrap(token_result).ok
    /\ Unwrap(token_result).val # Unwrap(file_contents[2])

(***************************************************************************)
(* slack.rs: the blocks and the payloads, and their JSON.                  *)
(***************************************************************************)
HeaderBlock_new(t) ==
    [block_type |-> "header", text |-> [text_type |-> "plain_text", text |-> t]]

SectionBlock_new(t) ==
    [block_type |-> "section", text |-> [text_type |-> "mrkdwn", text |-> t]]

\* The variants of the enum Block.
Header(b) == [variant |-> "Header", block |-> b]
Section(b) == [variant |-> "Section", block |-> b]

\* #[serde(untagged)] on Block, #[serde(rename = "type")] on block_type and
\* text_type: the JSON object of a block has the keys type and text only.
BlockJson(b) ==
    [type |-> b.block.block_type,
     text |-> [type |-> b.block.text.text_type, text |-> b.block.text.text]]

BlocksJson(bs) == [i \in 1..Len(bs) |-> BlockJson(bs[i])]

\* serde_json::to_vec(&BlocksPayload {..}), as the JSON object it encodes.
BlocksPayloadJson(p) ==
    [channel |-> p.channel, text |-> p.text, blocks |-> BlocksJson(p.blocks)]

\* serde_json::to_vec(&AttachmentPayload {..}), as the JSON object it encodes.
AttachmentPayloadJson(p) ==
    [channel |-> p.channel,
     text |-> p.text,
     attachments |->
        [i \in 1..Len(p.attachments) |->
            [color |-> p.attachments[i].color,
             blocks |-> BlocksJson(p.attachments[i].blocks)]]]

(***************************************************************************)
(* send_message                                                            *)
(***************************************************************************)
\* The decimal digits of n, as format!("{}", n) writes them.
RECURSIVE Decimal(_)
Decimal(n) ==
    IF n < 10 THEN <<48 + n>> ELSE Decimal(n \div 10) \o <<48 + (n % 10)>>

\* format!("Message exceeds {} chars; sending without color", n)
ExceedsWarning(n) ==
    <<77, 101, 115, 115, 97, 103, 101, 32, 101, 120, 99, 101, 101, 100, 115, 32>>
        \o Decimal(n)
        \o <<32, 99, 104, 97, 114, 115, 59, 32, 115, 101, 110, 100, 105, 110,
             103, 32, 119, 105, 116, 104, 111, 117, 116, 32, 99, 111, 108, 111,
             114>>

\* "unknown error"
UNKNOWN_ERROR == <<117, 110, 107, 110, 111, 119, 110, 32, 101, 114, 114, 111, 114>>

\* Line 89, with the message measured in characters.
UseAttachmentByChars(resolved, message) ==
    IsSome(resolved) /\ char_len(message) <= ATTACHMENT_TEXT_MAX

\* Line 89.
UseAttachment(resolved, message) ==
    IsSome(resolved) /\ Len(message) <= ATTACHMENT_TEXT_MAX

\* Lines 91-98.
LocalWarning(resolved, message) ==
    IF IsSome(resolved) /\ Len(message) > ATTACHMENT_TEXT_MAX
    THEN Some(ExceedsWarning(ATTACHMENT_TEXT_MAX))
    ELSE None

\* Lines 100-106, with the header pushed after the sections.
BuildBlocksHeaderLast(title, message) ==
    LET cs == split_text(message, SECTION_TEXT_MAX)
    IN  [i \in 1..Len(cs) |-> Section(SectionBlock_new(cs[i]))]
        \o (IF IsSome(title)
            THEN <<Header(HeaderBlock_new(Unwrap(title)))>> ELSE <<>>)

\* Lines 100-106.
BuildBlocks(title, message) ==
    LET cs == split_text(message, SECTION_TEXT_MAX)
    IN  (IF IsSome(title)
         THEN <<Header(HeaderBlock_new(Unwrap(title)))>> ELSE <<>>)
        \o [i \in 1..Len(cs) |-> Section(SectionBlock_new(cs[i]))]

\* Lines 117-122, with the text left out of the plain payload.
PlainPayloadNoText(cfg, bs) ==
    BlocksPayloadJson([channel |-> cfg.channel, text |-> <<>>, blocks |-> bs])

\* Lines 117-122.
PlainPayload(cfg, bs) ==
    BlocksPayloadJson(
        [channel |-> cfg.channel, text |-> cfg.message, blocks |-> bs])

\* Lines 109-115.
ColoredPayload(cfg, color, bs) ==
    AttachmentPayloadJson(
        [channel |-> cfg.channel,
         text |-> <<>>,
         attachments |-> <<[color |-> color, blocks |-> bs]>>])

\* The n-fold repetition of the character with scalar value cp.
Repeat(cp, n) ==
    LET u == Utf8(cp)
    IN  [i \in 1..(n * Len(u)) |-> u[((i - 1) % Len(u)) + 1]]

Near(k) == {n \in (k - Slack)..(k + Slack) : n >= 0}

\* Character counts at the section ceiling, at the attachment ceiling in
\* bytes for one-byte and for two-byte characters, and near nothing.
HeadLens ==
    (0..Slack) \cup Near(SECTION_TEXT_MAX) \cup Near(ATTACHMENT_TEXT_MAX)
        \cup Near(ATTACHMENT_TEXT_MAX \div 2)

TailLens == {0, 1, SECTION_TEXT_MAX}

\* A run of 'a' or of U+00E9, then a newline or nothing, then a run of 'b'.
SendMessages ==
    {Repeat(cp, n) \o mid \o Repeat(98, m) :
        cp \in {97, 233}, n \in HeadLens, mid \in {<<>>, <<NEWLINE>>},
        m \in TailLens}

\* None, "#FF0000", "Good", "blue"
SendColors ==
    {None, Some(<<35, 70, 70, 48, 48, 48, 48>>), Some(<<71, 111, 111, 100>>),
     Some(<<98, 108, 117, 101>>)}

\* channel "#c", token "x", title "T"
SendConfigs ==
    [channel : {<<35, 99>>}, message : SendMessages, color : SendColors,
     title : {None, Some(<<84>>)}, token : {<<120>>}]

\* The SlackResponse values of the transport: error "e", warning "w".
Responses ==
    [ok : BOOLEAN, error : {None, Some(<<101>>)}, warning : {None, Some(<<119>>)}]

SendInit ==
    /\ SplitIdle
    /\ ColorIdle
    /\ TokenIdle
    /\ CliIdle
    /\ config \in SendConfigs
    /\ resolved_color = None
    /\ use_attachment = FALSE
    /\ warning = None
    /\ blocks = <<>>
    /\ payload_bytes = None
    /\ posts = 0
    /\ response = None
    /\ send_result = None
    /\ send_pc = "start"

\* Lines 83-86, resolving the color only when the message is short enough
\* for the color to be used.
MapResolveColorIfFits(cfg) ==
    IF IsSome(cfg.color) /\ Len(cfg.message) <= ATTACHMENT_TEXT_MAX
    THEN Some(resolve_color(Unwrap(cfg.color))) ELSE None

\* Lines 83-86: config.color.as_ref().map(|c| resolve_color(c))
MapResolveColor(cfg) ==
    IF IsSome(cfg.color) THEN Some(resolve_color(Unwrap(cfg.color))) ELSE None

\* Lines 128-130, ignoring the error field of the response.
ApiErrorMessageFixed(r) == UNKNOWN_ERROR

\* Lines 128-130: response.error.unwrap_or_else(|| "unknown error".to_string())
ApiErrorMessage(r) == IF IsSome(r.error) THEN Unwrap(r.error) ELSE UNKNOWN_ERROR

\* Lines 134-136, with the warning of the response preferred.
FinalWarningRemoteFirst(local, r) ==
    IF r.warning = None THEN local ELSE r.warning

\* Lines 134-136: if warning.is_none() { warning = response.warning; }
FinalWarning(local, r) == IF local = None THEN r.warning ELSE local

\* Lines 83-87: config.color.as_ref().map(|c| resolve_color(c)).transpose()?
SendResolveColor ==
    /\ send_pc = "start"
    /\ LET r == MapResolveColor(config)
       IN  IF IsSome(r) /\ ~Unwrap(r).ok
           THEN /\ send_result' = Some(Err(Unwrap(r).err))
                /\ send_pc' = "done"
                /\ UNCHANGED resolved_color
           ELSE /\ resolved_color' = (IF IsSome(r) THEN Some(Unwrap(r).val)
                                      ELSE None)
                /\ send_pc' = "build"
                /\ UNCHANGED send_result
    /\ UNCHANGED cliVars
    /\ UNCHANGED <<config, use_attachment, warning, blocks, payload_bytes,
                   posts, response, splitVars, colorVars, tokenVars>>

\* Lines 89-123: the form, the local warning, the blocks and the payload.
SendBuildPayload ==
    /\ send_pc = "build"
    /\ use_attachment' = UseAttachment(resolved_color, config.message)
    /\ warning' = LocalWarning(resolved_color, config.message)
    /\ blocks' = BuildBlocks(config.title, config.message)
    /\ payload_bytes' =
          Some(IF use_attachment'
               THEN ColoredPayload(config, Unwrap(resolved_color), blocks')
               ELSE PlainPayload(config, blocks'))
    /\ send_pc' = "post"
    /\ UNCHANGED cliVars
    /\ UNCHANGED <<config, resolved_color, posts, response, send_result,
                   splitVars, colorVars, tokenVars>>

\* Line 125, with the call made again after a failure.
SendPostFailsRetry ==
    /\ send_pc = "post"
    /\ posts < 3
    /\ posts' = posts + 1
    /\ UNCHANGED cliVars
    /\ UNCHANGED <<config, resolved_color, use_attachment, warning, blocks,
                   payload_bytes, response, send_result, send_pc, splitVars,
                   colorVars, tokenVars>>

\* Line 125: the transport fails, and `?` returns its error.
SendPostFails ==
    /\ send_pc = "post"
    /\ posts' = posts + 1
    /\ send_result' = Some(Err(HttpError))
    /\ send_pc' = "done"
    /\ UNCHANGED cliVars
    /\ UNCHANGED <<config, resolved_color, use_attachment, warning, blocks,
                   payload_bytes, response, splitVars, colorVars, tokenVars>>

\* Line 125: the transport answers.
SendPostAnswers ==
    /\ send_pc = "post"
    /\ posts' = posts + 1
    /\ \E r \in Responses : response' = Some(r)
    /\ send_pc' = "respond"
    /\ UNCHANGED cliVars
    /\ UNCHANGED <<config, resolved_color, use_attachment, warning, blocks,
                   payload_bytes, send_result, splitVars, colorVars, tokenVars>>

\* Lines 127-138.
SendFinish ==
    /\ send_pc = "respond"
    /\ LET r == Unwrap(response)
       IN  IF ~r.ok
           THEN /\ send_result' = Some(Err(SlackApiError(ApiErrorMessage(r))))
                /\ UNCHANGED warning
           ELSE /\ warning' = FinalWarning(warning, r)
                /\ send_result' = Some(Ok([ok |-> TRUE, warning |-> warning']))
    /\ send_pc' = "done"
    /\ UNCHANGED cliVars
    /\ UNCHANGED <<config, resolved_color, use_attachment, blocks,
                   payload_bytes, posts, response, splitVars, colorVars,
                   tokenVars>>

Init == SendInit

Next ==
    \/ SendResolveColor
    \/ SendBuildPayload
    \/ SendPostFails
    \/ SendPostAnswers
    \/ SendFinish

Spec == Init /\ [][Next]_vars

(***************************************************************************)
(* Claims about the payload send_message builds.                           *)
(***************************************************************************)
\* send_message has built its payload.
PayloadBuilt == IsSome(payload_bytes)

\* The payload is built and the transport is about to be called with it;
\* nothing changes config or payload_bytes afterwards.
PayloadReady == PayloadBuilt /\ send_pc = "post"

\* The payload was handed to the transport.
PayloadPosted == PayloadBuilt /\ posts >= 1

\* The local warning is in `warning` from the build to the response.
LocalWarningKnown == send_pc \in {"post", "respond"}

IsAttachmentForm(p) == DOMAIN p = {"channel", "text", "attachments"}

IsPlainForm(p) == DOMAIN p = {"channel", "text", "blocks"}

\* The color is a keyword in any case or '#' with six hex digits.
IsValidColor(c) == (\E k \in Keywords : SpellsKeyword(c, k)) \/ IsHashHex(c)

ValidColorSupplied == IsSome(config.color) /\ IsValidColor(Unwrap(config.color))

\* The canonical lower-case color of a valid color.
CanonicalColor(c) ==
    IF SpellsKeyword(c, GOOD) \/ SpellsKeyword(c, SUCCESS) THEN HEX_GOOD
    ELSE IF SpellsKeyword(c, WARNING) THEN HEX_WARNING
    ELSE IF SpellsKeyword(c, DANGER) \/ SpellsKeyword(c, ERROR) THEN HEX_DANGER
    ELSE AsciiLower(c)

\* w has the decimal digits of ATTACHMENT_TEXT_MAX in it: "4000".
Mentions4000(w) ==
    \E i \in 1..(Len(w) - 3) : SubSeq(w, i, i + 3) = <<52, 48, 48, 48>>

\* C6: the attachment form is used exactly when a valid color is supplied
\* and the message is at most 4000 bytes long; at exactly 4000 bytes with a
\* color there is no local warning; above 4000 bytes with a color the plain
\* form is sent with a local warning that mentions 4000; without a color the
\* plain form is sent with no local warning, at any length.
C6_AttachmentIffColorAndFits ==
    PayloadBuilt =>
        LET p == Unwrap(payload_bytes)
            n == Len(config.message)
        IN  /\ IsAttachmentForm(p) <=>
                  (ValidColorSupplied /\ n <= ATTACHMENT_TEXT_MAX)
            /\ ~IsAttachmentForm(p) => IsPlainForm(p)
            /\ LocalWarningKnown =>
                  /\ (ValidColorSupplied /\ n <= ATTACHMENT_TEXT_MAX)
                        => warning = None
                  /\ (ValidColorSupplied /\ n > ATTACHMENT_TEXT_MAX)
                        => (IsSome(warning) /\ Mentions4000(Unwrap(warning)))
                  /\ config.color = None => warning = None

\* A colored message of two-byte characters, 4000 bytes long, is handed to
\* the transport in the attachment form.
C6_Witness ==
    /\ PayloadPosted
    /\ ValidColorSupplied
    /\ Len(config.message) = ATTACHMENT_TEXT_MAX
    /\ char_len(config.message) < ATTACHMENT_TEXT_MAX
    /\ IsAttachmentForm(Unwrap(payload_bytes))
    /\ LocalWarningKnown
    /\ warning = None

\* The blocks of the payload, wherever its form puts them.
PayloadBlocks(p) ==
    IF IsAttachmentForm(p) THEN p.attachments[1].blocks ELSE p.blocks

\* C7: a payload handed to the transport has one of two shapes.  The
\* attachment form: text is empty, there are no top-level blocks, and the
\* one attachment carries the canonical color and all the blocks.  The plain
\* form: text is the message unchanged, the blocks are at the top level,
\* and there are no attachments.  The channel is the configured one.
C7_PayloadShape ==
    PayloadPosted =>
        LET p == Unwrap(payload_bytes)
        IN  /\ IsAttachmentForm(p) \/ IsPlainForm(p)
            /\ p.channel = config.channel
            /\ IsAttachmentForm(p) =>
                  /\ p.text = <<>>
                  /\ Len(p.attachments) = 1
                  /\ DOMAIN p.attachments[1] = {"color", "blocks"}
                  /\ IsSome(config.color)
                  /\ p.attachments[1].color
                        = CanonicalColor(Unwrap(config.color))
                  /\ p.attachments[1].blocks = BlocksJson(blocks)
            /\ IsPlainForm(p) =>
                  /\ p.text = config.message
                  /\ p.blocks = BlocksJson(blocks)

\* A plain payload whose message went into several sections.
C7_Witness ==
    /\ PayloadPosted
    /\ IsPlainForm(Unwrap(payload_bytes))
    /\ Len(Unwrap(payload_bytes).blocks) >= 3
    /\ config.title = None
    /\ Unwrap(payload_bytes).text = config.message

\* C8: with a title the first block is a header with the title and no other
\* block is a header; without a title no block is a header; the sections
\* follow in chunk order, one for each chunk of split_text(message, 3000).
C8_HeaderThenSections ==
    PayloadReady =>
        LET bs == PayloadBlocks(Unwrap(payload_bytes))
            cs == split_text(config.message, SECTION_TEXT_MAX)
            off == IF IsSome(config.title) THEN 1 ELSE 0
        IN  /\ Len(bs) = off + Len(cs)
            /\ IsSome(config.title) =>
                  /\ bs[1].type = "header"
                  /\ bs[1].text.text = Unwrap(config.title)
            /\ \A i \in (off + 1)..Len(bs) :
                  /\ bs[i].type = "section"
                  /\ bs[i].text.text = cs[i - off]

\* A titled message in three chunks, in the attachment form.
C8_Witness ==
    /\ PayloadReady
    /\ IsSome(config.title)
    /\ IsAttachmentForm(Unwrap(payload_bytes))
    /\ Len(PayloadBlocks(Unwrap(payload_bytes))) >= 3

(***************************************************************************)
(* Claims about the result of send_message.                                *)
(***************************************************************************)
SendReturned == send_pc = "done" /\ IsSome(send_result)

\* The transport answered, and send_message returned.
Answered == SendReturned /\ IsSome(response)

\* C11: when the response has ok = false, send_message fails with
\* SlackApiError carrying the error field of the response as it is, or
\* "unknown error" when there is none, and returns no SendResult, whatever
\* the warnings; every SendResult returned has ok = true.
C11_NotOkIsSlackApiError ==
    /\ (Answered /\ ~Unwrap(response).ok) =>
          LET r == Unwrap(response)
              res == Unwrap(send_result)
          IN  /\ ~res.ok
              /\ res.err.kind = "SlackApiError"
              /\ IsSome(r.error) => res.err.arg = Unwrap(r.error)
              /\ r.error = None =>
                    res.err.arg = <<117, 110, 107, 110, 111, 119, 110, 32,
                                    101, 114, 114, 111, 114>>
    /\ (SendReturned /\ Unwrap(send_result).ok) =>
          /\ Unwrap(send_result).val.ok = TRUE
          /\ IsSome(response)
          /\ Unwrap(response).ok

\* The response is not ok, names its error and has a warning, and a local
\* warning was produced too.
C11_Witness ==
    /\ Answered
    /\ ~Unwrap(response).ok
    /\ IsSome(Unwrap(response).error)
    /\ IsSome(Unwrap(response).warning)
    /\ IsSome(warning)
    /\ ~Unwrap(send_result).ok

\* The local warning of a call: it exists exactly when a valid color comes
\* with a message of more than 4000 bytes.
LocalWarningProduced ==
    ValidColorSupplied /\ Len(config.message) > ATTACHMENT_TEXT_MAX

\* C12: on success the warning returned is the local warning whenever one
\* was produced, and the warning of the response, which may be absent,
\* otherwise; the two are never combined.
C12_LocalWarningFirst ==
    (SendReturned /\ Unwrap(send_result).ok) =>
        LET w == Unwrap(send_result).val.warning
        IN  /\ LocalWarningProduced =>
                  w = Some(ExceedsWarning(ATTACHMENT_TEXT_MAX))
            /\ ~LocalWarningProduced => w = Unwrap(response).warning

\* A success with a local warning and a warning in the response.
C12_Witness ==
    /\ SendReturned
    /\ Unwrap(send_result).ok
    /\ LocalWarningProduced
    /\ IsSome(Unwrap(response).warning)
    /\ Unwrap(send_result).val.warning # Unwrap(response).warning

\* An invalid color was supplied.
InvalidColorSupplied ==
    IsSome(config.color) /\ ~IsValidColor(Unwrap(config.color))

\* C13: with an invalid color send_message builds no payload and never calls
\* the transport, and it fails with InvalidColor, at every message length.
C13_InvalidColorFailsFirst ==
    InvalidColorSupplied =>
        /\ payload_bytes = None
        /\ blocks = <<>>
        /\ posts = 0
        /\ send_pc \in {"start", "done"}
        /\ send_pc = "done" =>
              send_result = Some(Err(InvalidColor(Unwrap(config.color))))

\* An invalid color with a message above the ceiling, where the color would
\* have been dropped.
C13_Witness ==
    /\ InvalidColorSupplied
    /\ Len(config.message) > ATTACHMENT_TEXT_MAX
    /\ SendReturned
    /\ ~Unwrap(send_result).ok

\* C14: the transport is called at most once in a call of send_message, and
\* exactly once when the color is absent or valid; when the call of the
\* transport fails, send_message fails with that error; after send_message
\* has returned, whatever the response, nothing more happens.
C14_OnePostNoRetry ==
    /\ posts <= 1
    /\ send_pc \in {"start", "build", "post"} => posts = 0
    /\ SendReturned =>
          /\ posts = 1 <=> ~InvalidColorSupplied
          /\ (posts = 1 /\ response = None) =>
                send_result = Some(Err([kind |-> "HttpError"]))
          /\ ~ENABLED Next

\* The transport failed.
C14_Witness ==
    /\ SendReturned
    /\ posts = 1
    /\ response = None
    /\ ~Unwrap(send_result).ok

(***************************************************************************)
(* split_text on its own, and as send_message calls it.                    *)
(***************************************************************************)
ChunksInit == SplitInit \/ SendInit

ChunksNext == SplitNext \/ Next

SpecChunks == ChunksInit /\ [][ChunksNext]_vars

\* C2 (send_message): every section block carries at most 3000 characters.
C2_SectionWithinMax ==
    PayloadReady =>
        \A i \in 1..Len(PayloadBlocks(Unwrap(payload_bytes))) :
            LET b == PayloadBlocks(Unwrap(payload_bytes))[i]
            IN  b.type = "section" => char_len(b.text.text) <= SECTION_TEXT_MAX

\* C2: every chunk of split_text holds at most max_len characters, counted
\* as scalar values, and every section block of send_message at most 3000.
C2_ChunksAndSectionsWithinMax == C2_ChunkWithinMax /\ C2_SectionWithinMax

(***************************************************************************)
(* serde_json::from_str::<Value> (main.rs:51).  The parser covers the      *)
(* JSON that the inputs below can spell: null, true, false, non-negative   *)
(* integers, strings without escapes, arrays and objects, with whitespace  *)
(* between tokens.  A Value is a record tagged by its type; an object is a *)
(* map from keys to values, in which the last of two equal keys wins.      *)
(***************************************************************************)
JNull == [type |-> "null"]
JBool(b) == [type |-> "bool", bool |-> b]
JNumber(n) == [type |-> "number", number |-> n]
JString(b) == [type |-> "string", bytes |-> b]
JArray(items) == [type |-> "array", items |-> items]
JObject(m) == [type |-> "object", members |-> m]

\* Value::is_object and Value::as_array.
IsObject(v) == v.type = "object"
IsArray(v) == v.type = "array"

\* Map::insert.
Insert(m, key, v) ==
    [k \in DOMAIN m \cup {key} |-> IF k = key THEN v ELSE m[k]]

Parsed(v, nxt) == [ok |-> TRUE, val |-> v, next |-> nxt]
Failed == [ok |-> FALSE]

\* Space, line feed, tab, carriage return.
JsonWhitespace == {32, 10, 9, 13}

\* The position of the first byte at or after i that is not whitespace.
RECURSIVE SkipWhitespace(_, _)
SkipWhitespace(s, i) ==
    IF i <= Len(s) /\ s[i] \in JsonWhitespace
    THEN SkipWhitespace(s, i + 1) ELSE i

\* s holds the byte b at position i.
At(s, i, b) == i <= Len(s) /\ s[i] = b

\* s holds the bytes lit from position i on.
Holds(s, i, lit) ==
    i + Len(lit) - 1 <= Len(s) /\ SubSeq(s, i, i + Len(lit) - 1) = lit

\* The position of the quote that closes a string whose first byte is at
\* i; 0 when the string is not closed or holds a control character.
RECURSIVE StringEnd(_, _)
StringEnd(s, i) ==
    IF i > Len(s) \/ s[i] < 32 THEN 0
    ELSE IF s[i] = 34 THEN i
    ELSE StringEnd(s, i + 1)

\* The position after the run of digits that starts at i.
RECURSIVE DigitsEnd(_, _)
DigitsEnd(s, i) ==
    IF i <= Len(s) /\ s[i] \in 48..57 THEN DigitsEnd(s, i + 1) ELSE i

\* The number that the digits s[i..j-1] spell.
RECURSIVE DigitsValue(_, _, _)
DigitsValue(s, i, j) ==
    IF j <= i THEN 0 ELSE 10 * DigitsValue(s, i, j - 1) + (s[j - 1] - 48)

RECURSIVE ParseValue(_, _)
RECURSIVE ParseElements(_, _, _)
RECURSIVE ElementStep(_, _)
RECURSIVE ParseMembers(_, _, _)

\* The value that starts at or after position i0, and the position after it.
ParseValue(s, i0) ==
    LET i == SkipWhitespace(s, i0)
    IN  IF i > Len(s) THEN Failed
        ELSE IF s[i] = 91 THEN                                  \* [
            IF At(s, SkipWhitespace(s, i + 1), 93)              \* ]
            THEN Parsed(JArray(<<>>), SkipWhitespace(s, i + 1) + 1)
            ELSE LET r == ParseElements(s, i + 1, Len(s))
                 IN  IF r.status = "closed"
                     THEN Parsed(JArray(r.items), r.next) ELSE Failed
        ELSE IF s[i] = 123 THEN                                 \* {
            IF At(s, SkipWhitespace(s, i + 1), 125)             \* }
            THEN Parsed(JObject(<<>>), SkipWhitespace(s, i + 1) + 1)
            ELSE ParseMembers(s, i + 1, <<>>)
        ELSE IF s[i] = 34 THEN                                  \* "
            LET e == StringEnd(s, i + 1)
            IN  IF e = 0 THEN Failed
                ELSE Parsed(JString(SubSeq(s, i + 1, e - 1)), e + 1)
        ELSE IF s[i] \in 48..57 THEN
            LET e == DigitsEnd(s, i)
            IN  IF s[i] = 48 /\ e > i + 1 THEN Failed   \* a leading zero
                ELSE Parsed(JNumber(DigitsValue(s, i, e)), e)
        ELSE IF Holds(s, i, <<110, 117, 108, 108>>)
            THEN Parsed(JNull, i + 4)
        ELSE IF Holds(s, i, <<116, 114, 117, 101>>)
            THEN Parsed(JBool(TRUE), i + 4)
        ELSE IF Holds(s, i, <<102, 97, 108, 115, 101>>)
            THEN Parsed(JBool(FALSE), i + 5)
        ELSE Failed

\* One turn of the loop over the elements of an array: the element at
\* position i and the comma or the bracket after it.
ElementStep(s, i) ==
    LET v == ParseValue(s, i)
    IN  IF ~v.ok THEN [status |-> "failed"]
        ELSE LET j == SkipWhitespace(s, v.next)
             IN  IF At(s, j, 44)                               \* ,
                 THEN [status |-> "more", items |-> <<v.val>>, next |-> j + 1]
                 ELSE IF At(s, j, 93)
                 THEN [status |-> "closed", items |-> <<v.val>>,
                       next |-> j + 1]
                 ELSE [status |-> "failed"]

\* At most n turns of that loop from position i on; the turns are taken in
\* order, half of them and then the other half, so that an array of a
\* hundred elements does not nest a hundred evaluations.
ParseElements(s, i, n) ==
    IF n <= 1 THEN ElementStep(s, i)
    ELSE LET a == ParseElements(s, i, n \div 2)
         IN  IF a.status # "more" THEN a
             ELSE LET b == ParseElements(s, a.next, n - n \div 2)
                  IN  IF b.status = "failed" THEN b
                      ELSE [status |-> b.status, items |-> a.items \o b.items,
                            next |-> b.next]

\* The members of an object from position i on, after the members m.
ParseMembers(s, i, m) ==
    LET k == SkipWhitespace(s, i)
        e == IF At(s, k, 34) THEN StringEnd(s, k + 1) ELSE 0
        c == SkipWhitespace(s, e + 1)
    IN  IF e = 0 \/ ~At(s, c, 58) THEN Failed                  \* :
        ELSE LET v == ParseValue(s, c + 1)
             IN  IF ~v.ok THEN Failed
                 ELSE LET j == SkipWhitespace(s, v.next)
                          m2 == Insert(m, SubSeq(s, k + 1, e - 1), v.val)
                      IN  IF At(s, j, 44)
                          THEN ParseMembers(s, j + 1, m2)
                          ELSE IF At(s, j, 125)
                          THEN Parsed(JObject(m2), j + 1)
                          ELSE Failed

\* serde_json::from_str: one value, then nothing but whitespace.
from_str(s) ==
    LET v == ParseValue(s, 1)
    IN  IF v.ok /\ SkipWhitespace(s, v.next) > Len(s)
        THEN Ok(v.val) ELSE Err("serde_json::Error")

(***************************************************************************)
(* parse_blocks_json (main.rs:50-79).                                      *)
(***************************************************************************)
MAX_BLOCKS == 100

InvalidBlocksJson(msg) == [kind |-> "InvalidBlocksJson", msg |-> msg]

\* Lines 64-76 with the two checks in the other order.
CheckElementsObjectsFirst(arr) ==
    IF \E i \in 1..Len(arr) : ~IsObject(arr[i])
    THEN Err(InvalidBlocksJson("each block must be a JSON object"))
    ELSE IF Len(arr) > MAX_BLOCKS
    THEN Err(InvalidBlocksJson("too many blocks (max 100)"))
    ELSE Ok(arr)

\* Lines 64-78.
CheckElements(arr) ==
    IF Len(arr) > MAX_BLOCKS
    THEN Err(InvalidBlocksJson("too many blocks (max 100)"))
    ELSE IF \E i \in 1..Len(arr) : ~IsObject(arr[i])
    THEN Err(InvalidBlocksJson("each block must be a JSON object"))
    ELSE Ok(arr)

parse_blocks_json(s) ==
    LET value == from_str(s)
    IN  IF ~value.ok THEN Err(InvalidBlocksJson(value.err))
        ELSE IF ~IsArray(value.val)
        THEN Err(InvalidBlocksJson("expected a JSON array"))
        ELSE IF value.val.items = <<>>
        THEN Err(InvalidBlocksJson("blocks array is empty"))
        ELSE CheckElements(value.val.items)

(***************************************************************************)
(* The inputs of parse_blocks_json: every short string over the            *)
(* punctuation of arrays and objects, the JSON text of short arrays over a *)
(* few elements, of those elements alone, and of long arrays around        *)
(* MAX_BLOCKS.                                                             *)
(***************************************************************************)
MaxJsonLen == 4
MaxJsonItems == 2

\* [ ] { } , 1
JsonChars == {91, 93, 123, 125, 44, 49}

ShortJsonStrings == UNION {[1..n -> JsonChars] : n \in 0..MaxJsonLen}

\* {"a":1} and {"b":[]}
ObjectA == JObject(Insert(<<>>, <<97>>, JNumber(1)))
ObjectB == JObject(Insert(<<>>, <<98>>, JArray(<<>>)))

JsonObjects == {JObject(<<>>), ObjectA, ObjectB}
JsonNonObjects == {JNumber(1), JNull, JArray(<<>>), JString(<<97>>)}
JsonElements == JsonObjects \cup JsonNonObjects

\* serde_json::to_string, the inverse of from_str.
RECURSIVE ToJson(_)
RECURSIVE ElementsToJson(_)
RECURSIVE MembersToJson(_)
ToJson(v) ==
    CASE v.type = "null" -> <<110, 117, 108, 108>>
      [] v.type = "bool" ->
            IF v.bool THEN <<116, 114, 117, 101>>
            ELSE <<102, 97, 108, 115, 101>>
      [] v.type = "number" -> Decimal(v.number)
      [] v.type = "string" -> <<34>> \o v.bytes \o <<34>>
      [] v.type = "array" -> <<91>> \o ElementsToJson(v.items) \o <<93>>
      [] v.type = "object" -> <<123>> \o MembersToJson(v.members) \o <<125>>

ElementsToJson(items) ==
    IF items = <<>> THEN <<>>
    ELSE IF Len(items) = 1 THEN ToJson(items[1])
    ELSE LET half == Len(items) \div 2
         IN  ElementsToJson(SubSeq(items, 1, half)) \o <<44>>
                \o ElementsToJson(SubSeq(items, half + 1, Len(items)))

MembersToJson(m) ==
    IF DOMAIN m = {} THEN <<>>
    ELSE LET k == CHOOSE k \in DOMAIN m : TRUE
             rest == [x \in DOMAIN m \ {k} |-> m[x]]
             one == <<34>> \o k \o <<34, 58>> \o ToJson(m[k])
         IN  IF DOMAIN rest = {} THEN one
             ELSE one \o <<44>> \o MembersToJson(rest)

ShortArrays == UNION {[1..n -> JsonElements] : n \in 0..MaxJsonItems}

\* n times the element v, with the element first in front and the element
\* last behind.
RepeatBetween(first, v, n, last) ==
    <<first>> \o [i \in 1..n |-> v] \o <<last>>

\* Arrays of MAX_BLOCKS - 1, MAX_BLOCKS and MAX_BLOCKS + 1 elements, all of
\* them objects or with one element that is not.
LongArrays ==
    {RepeatBetween(first, JObject(<<>>), n, last) :
        first \in {ObjectA, JNumber(1)},
        n \in (MAX_BLOCKS - 3)..(MAX_BLOCKS - 1),
        last \in {ObjectB, JNull}}

\* The text of a value with whitespace around it and after its first byte.
Spaced(s) == <<32, Head(s), 10>> \o Tail(s) \o <<9, 13>>

JsonTexts ==
    ShortJsonStrings
    \cup {ToJson(JArray(items)) : items \in ShortArrays \cup LongArrays}
    \cup {Spaced(ToJson(JArray(items))) : items \in ShortArrays}
    \cup {ToJson(v) : v \in JsonElements \cup {JBool(TRUE), JBool(FALSE)}}
    \cup {ToJson(JArray(items)) \o <<93>> : items \in ShortArrays}

BlocksInit ==
    /\ SplitIdle
    /\ ColorIdle
    /\ TokenIdle
    /\ SendIdle
    /\ RunIdle
    /\ json_str \in JsonTexts
    /\ parse_result = None
    /\ parse_pc = "call"

ParseBlocksJson ==
    /\ parse_pc = "call"
    /\ parse_result' = Some(parse_blocks_json(json_str))
    /\ parse_pc' = "done"
    /\ UNCHANGED <<json_str, splitVars, colorVars, tokenVars, sendVars, runVars>>

BlocksNext == ParseBlocksJson

SpecBlocks == BlocksInit /\ [][BlocksNext]_vars

(***************************************************************************)
(* parse_blocks_json: claim C18.                                           *)
(***************************************************************************)
ParseReturned == parse_pc = "done" /\ IsSome(parse_result)

\* An array of 1 to 100 elements, every one an object.
IsBlocksArray(v) ==
    /\ v.type = "array"
    /\ Len(v.items) >= 1
    /\ Len(v.items) <= 100
    /\ \A i \in 1..Len(v.items) : v.items[i].type = "object"

\* The message of the first check, in the order of the claim, that the
\* parsed JSON text j fails.
FirstFailedCheck(j) ==
    IF ~j.ok THEN "serde_json::Error"
    ELSE IF j.val.type # "array" THEN "expected a JSON array"
    ELSE IF Len(j.val.items) = 0 THEN "blocks array is empty"
    ELSE IF Len(j.val.items) >= 101 THEN "too many blocks (max 100)"
    ELSE "each block must be a JSON object"

\* The arrays whose JSON text is among the inputs, each with its text.
KnownArrays ==
    {<<ToJson(JArray(items)), items>> : items \in ShortArrays \cup LongArrays}

\* C18: parse_blocks_json returns Ok exactly for valid JSON that is an array
\* of 1 to 100 objects, and then returns the elements of the array as they
\* are and in their order; otherwise it returns InvalidBlocksJson with the
\* message of the first failed check among: parse error, not an array, empty
\* array, more than 100 elements, an element that is not an object.
C18_ParseBlocksJson ==
    ParseReturned =>
        LET r == Unwrap(parse_result)
            j == from_str(json_str)
        IN  /\ r.ok <=> (j.ok /\ IsBlocksArray(j.val))
            /\ r.ok => r.val = j.val.items
            /\ ~r.ok => /\ r.err.kind = "InvalidBlocksJson"
                        /\ r.err.msg = FirstFailedCheck(j)
            /\ \A known \in KnownArrays :
                  json_str = known[1] =>
                      /\ j.ok /\ j.val = JArray(known[2])
                      /\ r.ok => r.val = known[2]

\* An array of 100 different objects was accepted and returned in order.
C18_Witness ==
    /\ ParseReturned
    /\ Unwrap(parse_result).ok
    /\ Len(Unwrap(parse_result).val) = 100
    /\ Unwrap(parse_result).val[1] = ObjectA
    /\ Unwrap(parse_result).val[2] = JObject(<<>>)
    /\ Unwrap(parse_result).val[100] = ObjectB

(***************************************************************************)
(* run and main (main.rs:38-48, 81-149).  run calls read_blocks and        *)
(* parse_blocks_json, resolve_token and send_message; their models above   *)
(* take the steps between the call and the return.  send_message is the    *)
(* one of lib.rs, which does not read the blocks that run hands over.      *)
(***************************************************************************)
NoMessage == [kind |-> "NoMessage"]
StdinError == [kind |-> "StdinError"]

\* Line 111 and lines 43-45, taking only the empty string for blank.
IsBlankWhenEmpty(s) == s = <<>>

\* Line 111 and lines 43-45: s.trim().is_empty()
IsBlank(s) == Trim(s) = <<>>

\* Lines 38-48: read_stdin, on what read_to_string gives (None: an error).
read_stdin(data) ==
    IF data = None THEN Err(StdinError)
    ELSE IF IsBlank(Unwrap(data)) THEN Err(NoMessage)
    ELSE Ok(Trim(Unwrap(data)))

\* TokenConfig::default has two paths (token.rs:11-22).
DEFAULT_PATHS == 2

\* "-", the value of --blocks that stands for stdin.
Dash == <<45>>

\* The keyword "good" and a color that is none: "bad".
RunColors == {None, Some(<<103, 111, 111, 100>>), Some(<<98, 97, 100>>)}

\* What the environment variable and the two files hold: nothing, blanks,
\* a token with a line end.
RunTokenFiles == {None, Some(<<32>>), Some(<<120, 10>>)}

\* The command lines without --blocks, and what stdin gives.  The messages
\* are "", " ", "\n", "hi" and " hi "; the channel is "c", the title "T";
\* stdin fails, or gives "", " \n" or " hi\n".
MessageRuns ==
    [args : [message : {None, Some(<<>>), Some(<<32>>), Some(<<10>>),
                        Some(<<104, 105>>), Some(<<32, 104, 105, 32>>)},
             blocks : {None},
             channel : {<<99>>},
             color : RunColors,
             title : {None, Some(<<84>>)}],
     stdin_is_terminal : BOOLEAN,
     stdin_data : {None, Some(<<>>), Some(<<32, 10>>),
                   Some(<<32, 104, 105, 10>>)},
     blocks_file : {None}]

\* The command lines with --blocks, which clap refuses together with
\* --title, and what stdin and the file give.  The path is "f"; stdin
\* fails, or gives [{"a":1}] or "hi"; the file cannot be read, or holds
\* [{"b":[]},{"a":1}] or {"a":1}.
BlocksRuns ==
    [args : [message : {None, Some(<<104, 105>>)},
             blocks : {Some(Dash), Some(<<102>>)},
             channel : {<<99>>},
             color : {None, Some(<<103, 111, 111, 100>>)},
             title : {None}],
     stdin_is_terminal : BOOLEAN,
     stdin_data : {None, Some(ToJson(JArray(<<ObjectA>>))),
                   Some(<<104, 105>>)},
     blocks_file : {None, Some(ToJson(JArray(<<ObjectB, ObjectA>>))),
                    Some(ToJson(ObjectA))}]

RunInit ==
    /\ SplitIdle
    /\ ColorIdle
    /\ SendIdle
    /\ ParseIdle
    /\ env_value \in {None, Some(<<120>>)}
    /\ file_contents \in [1..DEFAULT_PATHS -> RunTokenFiles]
    /\ path_idx = 0
    /\ token_result = None
    /\ token_pc = "idle"
    /\ \E r \in MessageRuns \cup BlocksRuns :
          /\ args = r.args
          /\ stdin_is_terminal = r.stdin_is_terminal
          /\ stdin_data = r.stdin_data
          /\ blocks_file = r.blocks_file
    /\ stdin_reads = 0
    /\ run_message = <<>>
    /\ run_blocks = None
    /\ run_result = None
    /\ stderr = <<>>
    /\ exit_code = None
    /\ run_pc = "start"

runEnv == <<args, stdin_is_terminal, stdin_data, blocks_file>>

\* Lines 110-112: --message is given.
RunMessageGiven ==
    /\ run_pc = "start"
    /\ args.blocks = None
    /\ IsSome(args.message)
    /\ IF IsBlank(Unwrap(args.message))
       THEN /\ run_result' = Some(Err(NoMessage))
            /\ run_pc' = "returned"
            /\ UNCHANGED run_message
       ELSE /\ run_message' = Unwrap(args.message)
            /\ run_pc' = "token"
            /\ UNCHANGED run_result
    /\ UNCHANGED <<runEnv, stdin_reads, run_blocks, stderr, exit_code>>
    /\ UNCHANGED <<splitVars, colorVars, tokenVars, sendVars, parseVars>>

\* Lines 113-116: no --message, and stdin is a terminal.
RunNoMessageOnTerminal ==
    /\ run_pc = "start"
    /\ args.blocks = None
    /\ args.message = None
    /\ stdin_is_terminal
    /\ run_result' = Some(Err(NoMessage))
    /\ run_pc' = "returned"
    /\ UNCHANGED <<runEnv, stdin_reads, run_message, run_blocks, stderr,
                   exit_code>>
    /\ UNCHANGED <<splitVars, colorVars, tokenVars, sendVars, parseVars>>

\* Line 117: no --message, and stdin is piped: read_stdin()?
RunReadStdin ==
    /\ run_pc = "start"
    /\ args.blocks = None
    /\ args.message = None
    /\ ~stdin_is_terminal
    /\ stdin_reads' = stdin_reads + 1
    /\ LET r == read_stdin(stdin_data)
       IN  IF r.ok
           THEN /\ run_message' = r.val
                /\ run_pc' = "token"
                /\ UNCHANGED run_result
           ELSE /\ run_result' = Some(Err(r.err))
                /\ run_pc' = "returned"
                /\ UNCHANGED run_message
    /\ UNCHANGED <<runEnv, run_blocks, stderr, exit_code>>
    /\ UNCHANGED <<splitVars, colorVars, tokenVars, sendVars, parseVars>>

\* Lines 104-105 and 81-99: read_blocks up to the call of parse_blocks_json.
RunReadBlocks ==
    /\ run_pc = "start"
    /\ IsSome(args.blocks)
    /\ IF Unwrap(args.blocks) = Dash
       THEN IF stdin_is_terminal
            THEN /\ run_result' =
                       Some(Err(InvalidBlocksJson("no input piped to stdin")))
                 /\ run_pc' = "returned"
                 /\ UNCHANGED <<stdin_reads, parseVars>>
            ELSE /\ stdin_reads' = stdin_reads + 1
                 /\ IF stdin_data = None
                    THEN /\ run_result' = Some(Err(StdinError))
                         /\ run_pc' = "returned"
                         /\ UNCHANGED parseVars
                    ELSE /\ json_str' = Unwrap(stdin_data)
                         /\ parse_pc' = "call"
                         /\ run_pc' = "parse"
                         /\ UNCHANGED <<run_result, parse_result>>
       ELSE /\ UNCHANGED stdin_reads
            /\ IF blocks_file = None
               THEN /\ run_result' =
                          Some(Err(InvalidBlocksJson("failed to read file")))
                    /\ run_pc' = "returned"
                    /\ UNCHANGED parseVars
               ELSE /\ json_str' = Unwrap(blocks_file)
                    /\ parse_pc' = "call"
                    /\ run_pc' = "parse"
                    /\ UNCHANGED <<run_result, parse_result>>
    /\ UNCHANGED <<runEnv, run_message, run_blocks, stderr, exit_code>>
    /\ UNCHANGED <<splitVars, colorVars, tokenVars, sendVars>>

\* Lines 99 and 104-106: parse_blocks_json has returned.
RunBlocksParsed ==
    /\ run_pc = "parse"
    /\ parse_pc = "done"
    /\ LET r == Unwrap(parse_result)
       IN  IF r.ok
           THEN /\ run_blocks' = Some(r.val)
                /\ run_message' =
                      (IF IsSome(args.message) THEN Unwrap(args.message)
                       ELSE <<>>)
                /\ run_pc' = "token"
                /\ UNCHANGED run_result
           ELSE /\ run_result' = Some(Err(r.err))
                /\ run_pc' = "returned"
                /\ UNCHANGED <<run_message, run_blocks>>
    /\ UNCHANGED <<runEnv, stdin_reads, stderr, exit_code>>
    /\ UNCHANGED <<splitVars, colorVars, tokenVars, sendVars, parseVars>>

\* Line 123: resolve_token() is called.
RunCallResolveToken ==
    /\ run_pc = "token"
    /\ token_pc = "idle"
    /\ token_pc' = "env"
    /\ UNCHANGED <<env_value, file_contents, path_idx, token_result>>
    /\ UNCHANGED runVars
    /\ UNCHANGED <<splitVars, colorVars, sendVars, parseVars>>

\* Lines 123-135: resolve_token has returned; with a token, the SendConfig
\* is built and send_message is called.
RunTokenResolved ==
    /\ run_pc = "token"
    /\ token_pc = "done"
    /\ LET r == Unwrap(token_result)
       IN  IF r.ok
           THEN /\ config' = [channel |-> args.channel,
                              message |-> run_message,
                              color |-> args.color,
                              title |-> args.title,
                              token |-> r.val]
                /\ send_pc' = "start"
                /\ run_pc' = "send"
                /\ UNCHANGED run_result
           ELSE /\ run_result' = Some(Err(r.err))
                /\ run_pc' = "returned"
                /\ UNCHANGED <<config, send_pc>>
    /\ UNCHANGED <<resolved_color, use_attachment, warning, blocks,
                   payload_bytes, posts, response, send_result>>
    /\ UNCHANGED <<runEnv, stdin_reads, run_message, run_blocks, stderr,
                   exit_code>>
    /\ UNCHANGED <<splitVars, colorVars, tokenVars, parseVars>>

\* Lines 135-141: send_message has returned.
RunSendReturned ==
    /\ run_pc = "send"
    /\ send_pc = "done"
    /\ LET r == Unwrap(send_result)
       IN  IF r.ok
           THEN /\ run_result' = Some(Ok(<<>>))
                /\ stderr' =
                      (IF IsSome(r.val.warning)
                       THEN Append(stderr, [line |-> "Warning",
                                            text |-> Unwrap(r.val.warning)])
                       ELSE stderr)
           ELSE /\ run_result' = Some(Err(r.err))
                /\ UNCHANGED stderr
    /\ run_pc' = "returned"
    /\ UNCHANGED <<runEnv, stdin_reads, run_message, run_blocks, exit_code>>
    /\ UNCHANGED <<splitVars, colorVars, tokenVars, sendVars, parseVars>>

\* Lines 144-149: main, after run has returned.
MainExit ==
    /\ run_pc = "returned"
    /\ LET r == Unwrap(run_result)
       IN  IF r.ok
           THEN /\ exit_code' = Some(0)
                /\ UNCHANGED stderr
           ELSE /\ stderr' = Append(stderr, [line |-> "Error", err |-> r.err])
                /\ exit_code' = Some(1)
    /\ run_pc' = "exited"
    /\ UNCHANGED <<runEnv, stdin_reads, run_message, run_blocks, run_result>>
    /\ UNCHANGED <<splitVars, colorVars, tokenVars, sendVars, parseVars>>

\* The steps of the callees are taken while run waits for them.
RunNext ==
    \/ RunMessageGiven
    \/ RunNoMessageOnTerminal
    \/ RunReadStdin
    \/ RunReadBlocks
    \/ ParseBlocksJson
    \/ RunBlocksParsed
    \/ RunCallResolveToken
    \/ TokenNext
    \/ RunTokenResolved
    \/ Next
    \/ RunSendReturned
    \/ MainExit

SpecRun == RunInit /\ [][RunNext]_vars

(***************************************************************************)
(* run and main: claim C15.                                                *)
(***************************************************************************)
\* run has returned, and main may have exited.
RunReturned == run_pc \in {"returned", "exited"} /\ IsSome(run_result)

\* No --blocks, no --message, and stdin is a terminal.
NothingGivenOnTerminal ==
    args.blocks = None /\ args.message = None /\ stdin_is_terminal

\* Without --blocks, no message that is not blank can be obtained: none is
\* given on a terminal, or --message is blank, or the piped stdin is blank.
NoMessageObtained ==
    /\ args.blocks = None
    /\ \/ args.message = None /\ stdin_is_terminal
       \/ IsSome(args.message) /\ ~HasNonBlank(Unwrap(args.message))
       \/ /\ args.message = None
          /\ ~stdin_is_terminal
          /\ IsSome(stdin_data)
          /\ ~HasNonBlank(Unwrap(stdin_data))

\* C15: without --blocks, a run with no message on a terminal never reads
\* stdin; and a run that obtains no non-blank message returns NoMessage
\* with resolve_token and send_message never called and the transport never
\* invoked, and the process exits with code 1 after writing the error.
C15_NoMessageFailsFirst ==
    /\ NothingGivenOnTerminal => stdin_reads = 0
    /\ NoMessageObtained =>
          /\ run_pc \in {"start", "returned", "exited"}
          /\ token_pc = "idle" /\ token_result = None
          /\ send_pc = "idle" /\ send_result = None
          /\ posts = 0
          /\ run_pc # "start" =>
                /\ RunReturned
                /\ ~Unwrap(run_result).ok
                /\ Unwrap(run_result).err.kind = "NoMessage"
          /\ run_pc = "exited" <=> exit_code = Some(1)
          /\ exit_code \in {None, Some(1)}
          /\ run_pc = "exited" =>
                /\ Len(stderr) = 1
                /\ stderr[1].line = "Error"
                /\ stderr[1].err.kind = "NoMessage"

\* The process has exited with code 1 on a terminal without a message,
\* and the text waiting on stdin was not read.
C15_Witness ==
    /\ run_pc = "exited"
    /\ NothingGivenOnTerminal
    /\ IsSome(stdin_data) /\ HasNonBlank(Unwrap(stdin_data))
    /\ stdin_reads = 0
    /\ exit_code = Some(1)
    /\ Unwrap(run_result).err.kind = "NoMessage"

=============================================================================
